---- MODULE Spec2Model ----
(***************************************************************************)
(* A model of mozphab's `patch` command (src/mozphab/commands/patch.py).   *)
(*                                                                         *)
(* patch(repo, args) is one sequential procedure.  Every call it makes on  *)
(* a collaborator (conduit, repo, prompt, config, apply_patch, logger) is  *)
(* appended to `calls`, so that the order of the effects of one run can be *)
(* stated.  The collaborators are not part of patch.py; their answers are  *)
(* drawn from small sets where patch() asks for them.                      *)
(***************************************************************************)
EXTENDS Integers, Sequences, FiniteSets, TLC

\* ------------------------------------------------------------------ bounds
MaxRev == 4       \* revisions the review service knows
MaxChain == 2     \* longest chain an ancestor or a successor walk returns
MaxNoCommit == 1  \* diffs of one stack that carry no commit metadata
MaxDigits == 2    \* digits of the number in a revision argument

\* Python's None where an integer is expected (parent = None, line 183).
NoId == 0
\* A value that is a string or Python's None (args.apply_to, base_node) is a
\* sequence: empty for None (base_node = None, line 151), else of the one
\* string, so that no string, "None" and "" included, is taken for None.
None == <<>>
Some(s) == <<s>>

\* --------------------------------------------------- the review service
\* The revisions of the service form one dependency chain; the revision at
\* position q depends on the one at position q - 1.  Ids are not ordered
\* along the chain.
IdAt(q) == (q * 3) % 7
KnownIds == {IdAt(q) : q \in 1..MaxRev}
PosOf(id) == CHOOSE q \in 1..MaxRev : IdAt(q) = id
\* An id the service has no revision for: the chain ends before it.
UnknownId == IdAt(MaxRev + 1)

PhidOf(id) == 100 + id
DiffPhidOf(id) == 200 + id
DiffIdOf(id) == 300 + id
AuthorOf(id) == 400 + id
DateOf(id) == 500 + id
\* differential.getrawdiff: the text of the diff with the given diffID
RawDiffOf(diffID) == 1000 + diffID

Revision(id) ==
    [id |-> id, phid |-> PhidOf(id), diffPHID |-> DiffPhidOf(id)]

\* conduit.get_revisions(ids=...): the revisions found, in the order asked
get_revisions_by_ids(ids) ==
    LET known == SelectSeq(ids, LAMBDA i : i \in KnownIds)
    IN  [k \in 1..Len(known) |-> Revision(known[k])]

\* conduit.get_revisions(phids=...): the revisions in the order of phids
get_revisions_by_phids(phids) ==
    [k \in 1..Len(phids) |-> Revision(phids[k] - 100)]

\* conduit.get_ancestor_phids: the handles of n ancestors, nearest first
AncestorPhids(id, n) ==
    [k \in 1..n |-> PhidOf(IdAt(PosOf(id) - k))]

\* conduit.get_successor_phids: the handles of n successors, nearest
\* first; unless include_abandoned the walk does not pass the abandoned
\* revision
SuccessorPhids(id, n, abandoned, include_abandoned) ==
    LET all == [k \in 1..n |-> PhidOf(IdAt(PosOf(id) + k))]
        open == {k \in 1..n : \A j \in 1..k : all[j] # PhidOf(abandoned)}
    IN  IF include_abandoned
        THEN all
        ELSE SubSeq(all, 1, Cardinality(open))

Min(a, b) == IF a < b THEN a ELSE b

\* ------------------------------------------------------ the local repo
\* repo.check_node: the local commit an identifier resolves to.  "n1" is a
\* local commit, "h1" names the local commit "n2" in another notation,
\* everything else is unknown.
NotFound == "NotFoundError"
check_node(node) ==
    CASE node = "n1" -> "n1"
      [] node = "h1" -> "n2"
      [] OTHER -> NotFound

\* ------------------------------------------------------------- helpers
Ev(op, id, node, ok) ==
    [op |-> op, id |-> id, node |-> node, ok |-> ok, base |-> None]
\* a call that is handed the base node
EvBase(op, id, base, ok) ==
    [op |-> op, id |-> id, node |-> "", ok |-> ok, base |-> base]
\* what argparse has of the revision argument: the id a call of
\* check_revision_id returned
Returned(id) == [ok |-> TRUE, id |-> id, raised |-> ""]
\* "%s" of a string or None
Str(o) == IF o = None THEN "None" ELSE o[1]
Err(msg, id, node) == [msg |-> msg, id |-> id, node |-> node]
NoError == Err("", NoId, "")
\* prepare_body, were it called after `parent = rev["id"]` of line 193.
prepare_body_late(rev, depends_on) == [id |-> rev.id, depends_on |-> rev.id]

\* helpers.prepare_body(title, summary, rev_id, phab_url, depends_on)
prepare_body(rev, depends_on) == [id |-> rev.id, depends_on |-> depends_on]
NoBody == [id |-> NoId, depends_on |-> NoId]

RECURSIVE Reverse(_)
Reverse(s) == IF s = <<>> THEN <<>> ELSE Append(Reverse(Tail(s)), Head(s))

VARIABLES
    pc,         \* position in patch()
    args,       \* the parsed command line
    config,     \* mozphab.config: always_full_stack
    revisions,  \* local: the stack
    parents,    \* local: ancestor handles
    children,   \* local: successor handles
    diffs,      \* local: diffPHID -> diff
    base_node,  \* local
    idx,        \* position of the loop of lines 184-219 in revisions
    parent,     \* local: id of the previous revision of the loop
    body,       \* local: the commit body prepared last
    raw,        \* local: the raw diff downloaded last
    tree,       \* the working tree and the history of the local repository
    calls,      \* the collaborator calls of this run, in order
    error,      \* the Error that ended the run
    value,      \* the revision argument of the command line, as characters
    parsed      \* what argparse made of it with check_revision_id

vars == <<pc, args, config, revisions, parents, children, diffs, base_node,
          idx, parent, body, raw, tree, calls, error, value, parsed>>

\* the command line before patch() runs
cli == <<value, parsed>>

locals == <<revisions, parents, children, diffs, base_node, idx, parent, body,
            raw>>

\* -------------------------------------------------------------- inputs
RevisionIds == KnownIds \cup {UnknownId}
\* --apply-to: absent, empty, "here", "base", or a node
ApplyToChoices ==
    {None, Some(""), Some("here"), Some("base"), Some("n1"), Some("x1")}
\* config.apply_patch_to
ConfigApplyTo == {"base", "here"}

\* add_parser, lines 249-261: --raw and --apply-to exclude each other
ArgsOk(a) == a.raw => a.apply_to = None

\* Python's None where a branch name is expected (line 180).
NoBranch == [prefix |-> "", id |-> NoId]

\* The working tree before the run: clean or not, nothing staged by patch().
InitialTree ==
    [base |-> None, branch |-> NoBranch, staged |-> FALSE,
     commits |-> <<>>, applied |-> <<>>]

Init ==
    /\ pc = "start"
    /\ args \in {a \in [raw : BOOLEAN, no_commit : BOOLEAN, yes : BOOLEAN,
                        no_parents : BOOLEAN, no_children : BOOLEAN,
                        revision_id : RevisionIds,
                        apply_to : ApplyToChoices] : ArgsOk(a)}
    /\ config \in [always_full_stack : BOOLEAN]
    /\ revisions = <<>>
    /\ parents = <<>>
    /\ children = <<>>
    /\ diffs = <<>>
    /\ base_node = None
    /\ idx = 0
    /\ parent = NoId
    /\ body = NoBody
    /\ raw = NoId
    /\ tree = InitialTree
    /\ calls = <<>>
    /\ error = NoError
    /\ value = <<>>
    /\ parsed = Returned(args.revision_id)

Raise(e) == pc' = "error" /\ error' = e

\* lines 46-50
ConduitCheck ==
    /\ pc = "start"
    /\ \E ok \in BOOLEAN :
        /\ calls' = Append(calls, Ev("conduit.check", NoId, "", ok))
        /\ IF ok
           THEN pc' = "guard" /\ UNCHANGED error
           ELSE Raise(Err("Failed to use Conduit API", NoId, ""))
    /\ UNCHANGED <<args, config, locals, tree>>
    /\ UNCHANGED cli

\* line 52: the pre-flight checks run unless --raw
GuardApplies(a) == ~a.raw

\* lines 52-65
Guard ==
    /\ pc = "guard"
    /\ IF ~GuardApplies(args)
       THEN pc' = "root" /\ UNCHANGED <<calls, error>>
       ELSE \E vcs_ok \in BOOLEAN, clean \in BOOLEAN, mercurial \in BOOLEAN :
            IF ~vcs_ok
            THEN /\ calls' = Append(calls, Ev("check_vcs", NoId, "", FALSE))
                 /\ Raise(Err("VCS mismatch", NoId, ""))
            ELSE /\ calls' = calls \o <<Ev("check_vcs", NoId, "", TRUE),
                                       Ev("is_worktree_clean", NoId, "", clean)>>
                 /\ IF clean
                    THEN pc' = "root" /\ UNCHANGED error
                    ELSE Raise(Err("Uncommitted changes present", NoId,
                                   IF mercurial THEN "shelve" ELSE "stash"))
    /\ UNCHANGED <<args, config, locals, tree>>
    /\ UNCHANGED cli

\* lines 67-77
FetchRoot ==
    /\ pc = "root"
    /\ \E no_dependencies \in BOOLEAN :
        args' = [args EXCEPT !.no_parents = @ \/ no_dependencies,
                             !.no_children = @ \/ no_dependencies]
    /\ LET found == get_revisions_by_ids(<<args.revision_id>>)
       IN  /\ calls' = Append(calls, Ev("get_revisions", args.revision_id, "",
                                        found # <<>>))
           /\ revisions' = found
           /\ IF found = <<>>
              THEN Raise(Err("Revision not found", NoId, ""))
              ELSE pc' = "parents" /\ UNCHANGED error
    /\ UNCHANGED <<config, parents, children, diffs, base_node, idx, parent,
                   body, raw, tree>>
    /\ UNCHANGED cli

\* AncestorsNonLinear, were the branching ancestry only warned about as the
\* branching successors are.
AncestorsNonLinearWarn ==
    /\ pc' = "children"
    /\ UNCHANGED <<parents, error>>

\* lines 84-88: a branching ancestry ends the run
AncestorsNonLinear ==
    /\ Raise(Err("non-linear dependency relationships", args.revision_id,
                 "Unable to patch the stack"))
    /\ UNCHANGED parents

\* lines 79-88
FetchParents ==
    /\ pc = "parents"
    /\ IF args.no_parents
       THEN /\ pc' = "children"
            /\ UNCHANGED <<parents, calls, error>>
       ELSE \E nonlinear \in BOOLEAN,
               n \in 0..Min(MaxChain, PosOf(args.revision_id) - 1) :
            /\ calls' = Append(calls, Ev("get_ancestor_phids",
                                         revisions[1].phid, "", ~nonlinear))
            /\ IF nonlinear
               THEN AncestorsNonLinear
               ELSE /\ parents' = AncestorPhids(args.revision_id, n)
                    /\ pc' = "children"
                    /\ UNCHANGED error
    /\ UNCHANGED <<args, config, revisions, children, diffs, base_node, idx,
                   parent, body, raw, tree>>
    /\ UNCHANGED cli

\* lines 90-102
FetchChildren ==
    /\ pc = "children"
    /\ IF args.no_children
       THEN UNCHANGED <<children, calls>>
       ELSE \E nonlinear \in BOOLEAN, include_abandoned \in BOOLEAN,
               n \in 0..Min(MaxChain, MaxRev - PosOf(args.revision_id)),
               abandoned \in KnownIds \cup {NoId} :
            IF nonlinear
            THEN /\ calls' = calls \o
                        <<Ev("get_successor_phids", revisions[1].phid, "", FALSE),
                          Ev("warning: non-linear", args.revision_id,
                             "Unable to apply child revisions", TRUE)>>
                 /\ UNCHANGED children
            ELSE /\ calls' = Append(calls, Ev("get_successor_phids",
                                              revisions[1].phid, "", TRUE))
                 /\ children' = SuccessorPhids(args.revision_id, n, abandoned,
                                               include_abandoned)
    /\ pc' = "confirm"
    /\ UNCHANGED <<args, config, revisions, parents, diffs, base_node, idx,
                   parent, body, raw, tree, error>>
    /\ UNCHANGED cli

\* AsksForChildren, were the prompt shown without looking at children.
AsksWithoutChildren(a, cfg, ps, cs) ==
    ~a.yes /\ ~cfg.always_full_stack

\* AsksForChildren, were the prompt shown only when parents were found too.
AsksOnlyWithParents(a, cfg, ps, cs) ==
    ~a.yes /\ ps # <<>> /\ cs # <<>> /\ ~cfg.always_full_stack

\* lines 104-105: is the user asked whether to patch the children?
AsksForChildren(a, cfg, ps, cs) ==
    ~a.yes /\ cs # <<>> /\ ~cfg.always_full_stack

\* ChildrenAfter, were the answer "No" not acted upon.
ChildrenAfterKept(res, cs) == cs

\* lines 115-116: the children after the answer
ChildrenAfter(res, cs) == IF res = "No" THEN <<>> ELSE cs

\* lines 112-113: the preference after the answer
ConfigAfter(res, cfg) ==
    IF res = "Always" THEN [cfg EXCEPT !.always_full_stack = TRUE] ELSE cfg

\* lines 104-116
Confirm ==
    /\ pc = "confirm"
    /\ IF AsksForChildren(args, config, parents, children)
       THEN \E res \in {"Yes", "No", "Always"} :
            /\ config' = ConfigAfter(res, config)
            /\ children' = ChildrenAfter(res, children)
            /\ calls' = calls \o
                 <<Ev("prompt", args.revision_id, res, Len(children) = 1)>> \o
                 (IF res = "Always"
                  THEN <<Ev("config.write", NoId, "", TRUE)>>
                  ELSE <<>>)
       ELSE UNCHANGED <<config, children, calls>>
    /\ pc' = "related"
    /\ UNCHANGED <<args, revisions, parents, diffs, base_node, idx, parent,
                   body, raw, tree, error>>
    /\ UNCHANGED cli

\* BuildStack, were revisions.reverse() of line 122 left out.
BuildStackNoReverse(root, ps, cs) ==
    LET withParents == IF ps # <<>>
                       THEN root \o get_revisions_by_phids(ps)
                       ELSE root
    IN  IF cs # <<>>
        THEN withParents \o get_revisions_by_phids(cs)
        ELSE withParents

\* lines 119-126: the stack, from the root, the ancestors (nearest first)
\* and the successors (nearest first)
BuildStack(root, ps, cs) ==
    LET withParents == IF ps # <<>>
                       THEN Reverse(root \o get_revisions_by_phids(ps))
                       ELSE root
    IN  IF cs # <<>>
        THEN withParents \o get_revisions_by_phids(cs)
        ELSE withParents

\* lines 118-133
FetchRelated ==
    /\ pc = "related"
    /\ revisions' = BuildStack(revisions, parents, children)
    /\ calls' = calls \o
         (IF parents # <<>>
          THEN <<Ev("get_revisions(phids)", Len(parents), "parents", TRUE)>>
          ELSE <<>>) \o
         (IF children # <<>>
          THEN <<Ev("get_revisions(phids)", Len(children), "children", TRUE)>>
          ELSE <<>>) \o
         (IF ~args.raw
          THEN <<Ev("info: Patching", Len(revisions'), "", TRUE)>>
          ELSE <<>>)
    /\ pc' = "diffs"
    /\ UNCHANGED <<args, config, parents, children, diffs, base_node, idx,
                   parent, body, raw, tree, error>>
    /\ UNCHANGED cli

\* ------------------------------------------------------------- diffs
Ref(type, identifier) == [type |-> type, identifier |-> identifier]
\* The reference lists a diff may carry (diff["fields"]["refs"]).
RefsChoices ==
    { <<>>,
      <<Ref("branch", "o1"), Ref("base", "n1")>>,
      <<Ref("base", "h1"), Ref("base", "n1")>>,
      <<Ref("base", "x1")>>,
      <<Ref("base", "")>>,
      <<Ref("base", ""), Ref("base", "n1")>> }
\* The references of the diffs after the first of the stack.
LaterRefs == <<Ref("base", "n1")>>

Diff(id, hasCommits, refs) ==
    [id |-> DiffIdOf(id),
     commits |-> IF hasCommits THEN <<[author |-> AuthorOf(id)]>> ELSE <<>>,
     refs |-> refs,
     dateCreated |-> DateOf(id)]

StackIds(revs) == {revs[k].id : k \in 1..Len(revs)}
DiffPhids(revs) == {revs[k].diffPHID : k \in 1..Len(revs)}

\* lines 135-137
PullDiffs ==
    /\ pc = "diffs"
    /\ \E refs \in RefsChoices,
          bare \in {b \in SUBSET StackIds(revisions) :
                        Cardinality(b) <= MaxNoCommit} :
        diffs' = [d \in DiffPhids(revisions) |->
                    LET id == d - 200
                    IN  Diff(id, id \notin bare,
                             IF d = revisions[1].diffPHID
                             THEN refs ELSE LaterRefs)]
    /\ calls' = Append(calls, Ev("get_diffs", Len(revisions), "", TRUE))
    /\ pc' = "commits"
    /\ UNCHANGED <<args, config, revisions, parents, children, base_node, idx,
                   parent, body, raw, tree, error>>
    /\ UNCHANGED cli

\* NeedsCommitInfo, were --no-commit forgotten in the test of line 139.
NeedsCommitInfoUnlessRaw(a) == ~a.raw

\* line 139: the commit metadata is needed to create commits
NeedsCommitInfo(a) == ~a.no_commit /\ ~a.raw

\* WithoutCommits, were only the first revision of the stack looked at.
WithoutCommitsFirst(revs, ds) ==
    IF ds[revs[1].diffPHID].commits = <<>> THEN <<revs[1]>> ELSE <<>>

\* lines 140-146: the revisions of the stack whose diff has no commits
WithoutCommits(revs, ds) ==
    SelectSeq(revs, LAMBDA r : ds[r.diffPHID].commits = <<>>)

\* TargetRevisionId, were the first revision of the stack taken.
TargetRevisionIdFirst(revs) == revs[1].id

\* line 149
TargetRevisionId(revs) == revs[Len(revs)].id

\* lines 139-149
CheckCommits ==
    /\ pc = "commits"
    /\ IF NeedsCommitInfo(args) /\ WithoutCommits(revisions, diffs) # <<>>
       THEN Raise(Err("A diff without commit information detected",
                      WithoutCommits(revisions, diffs)[1].id,
                      "Use --no-commit"))
       ELSE pc' = "base" /\ UNCHANGED error
    /\ UNCHANGED <<args, config, locals, tree, calls>>
    /\ UNCHANGED cli

\* get_base_ref, were the loop not left at the first "base" reference.
RECURSIVE get_base_ref_last(_)
get_base_ref_last(refs) ==
    IF refs = <<>> THEN None
    ELSE LET later == get_base_ref_last(Tail(refs))
         IN  IF later # None THEN later
             ELSE IF Head(refs).type = "base"
                  THEN Some(Head(refs).identifier)
             ELSE None

\* lines 19-22
RECURSIVE get_base_ref(_)
get_base_ref(refs) ==
    IF refs = <<>> THEN None
    ELSE IF Head(refs).type = "base" THEN Some(Head(refs).identifier)
    ELSE get_base_ref(Tail(refs))

\* line 156: the diff whose references give the base
BaseDiff(revs, ds) == ds[revs[1].diffPHID]

\* lines 153, 158: Python's truth test of a string or None
Falsy(s) == s = None \/ s = Some("")

\* line 153: args.apply_to or config.apply_patch_to
EffectiveApplyTo(a, cfgApplyTo) ==
    IF Falsy(a.apply_to) THEN Some(cfgApplyTo) ELSE a.apply_to

\* NeedsCheck, were the base node checked in "here" mode too.
NeedsCheckAlways(to) == TRUE

\* line 166: the base node is checked against the repository
NeedsCheck(to) == to # Some("here")

\* lines 166-181: where the run goes on after the base was selected
AfterSelect(to) == IF NeedsCheck(to) THEN "check_node" ELSE "before_patch"

\* lines 151-166
SelectBase ==
    /\ pc = "base"
    /\ IF args.raw
       THEN /\ pc' = "loop"
            /\ idx' = 1
            /\ UNCHANGED <<args, base_node, error>>
       ELSE \E cfgApplyTo \in ConfigApplyTo :
            LET to == EffectiveApplyTo(args, cfgApplyTo)
                ref == get_base_ref(BaseDiff(revisions, diffs).refs)
            IN  /\ args' = [args EXCEPT !.apply_to = to]
                /\ UNCHANGED idx
                /\ IF to = Some("base")
                   THEN IF Falsy(ref)
                        THEN /\ Raise(Err("Base commit not found in diff",
                                          NoId, "Use --apply-to here"))
                             /\ base_node' = ref
                        ELSE /\ base_node' = ref
                             /\ pc' = AfterSelect(to)
                             /\ UNCHANGED error
                   ELSE IF to # Some("here")
                        THEN /\ base_node' = to
                             /\ pc' = AfterSelect(to)
                             /\ UNCHANGED error
                        ELSE /\ pc' = AfterSelect(to)
                             /\ UNCHANGED <<base_node, error>>
    /\ UNCHANGED <<config, revisions, parents, children, diffs, parent, body,
                   raw, tree, calls>>
    /\ UNCHANGED cli

\* line 169: what repo.check_node gives for base_node
Checked(node) == IF node = None THEN NotFound ELSE check_node(node[1])

\* line 169: the node that replaces base_node after the check
CheckedNode(node) == Some(Checked(node))

\* NodeMissing, were the NotFoundError swallowed.
NodeMissingIgnored(res) == FALSE

\* line 170: repo.check_node raised NotFoundError
NodeMissing(res) == res = NotFound

\* lines 167-178
CheckNode ==
    /\ pc = "check_node"
    /\ LET res == Checked(base_node)
       IN  /\ calls' = Append(calls, EvBase("check_node", NoId, base_node,
                                            res # NotFound))
           /\ IF NodeMissing(res)
              THEN /\ Raise(Err(IF args.apply_to = Some("base")
                                THEN "Unknown revision; Use --apply-to"
                                ELSE "Unknown revision", NoId,
                                Str(base_node)))
                   /\ UNCHANGED base_node
              ELSE /\ base_node' = CheckedNode(base_node)
                   /\ pc' = "before_patch"
                   /\ UNCHANGED error
    /\ UNCHANGED <<args, config, revisions, parents, children, diffs, idx,
                   parent, body, raw, tree>>
    /\ UNCHANGED cli

\* BranchName, were the branch named with --no-commit too.
BranchNameAlways(a, target) == [prefix |-> "phab-D", id |-> target]

\* line 180: "phab-D%s" % target_revision_id, None with --no-commit
BranchName(a, target) ==
    IF a.no_commit THEN NoBranch ELSE [prefix |-> "phab-D", id |-> target]

\* lines 180-181
BeforePatch ==
    /\ pc = "before_patch"
    /\ LET branch == BranchName(args, TargetRevisionId(revisions))
       IN  /\ calls' = Append(calls, EvBase("before_patch", branch.id,
                                            base_node, branch # NoBranch))
           /\ tree' = [tree EXCEPT !.base = base_node, !.branch = branch,
                                   !.staged = TRUE]
    /\ pc' = "loop"
    /\ idx' = 1
    /\ UNCHANGED <<args, config, revisions, parents, children, diffs,
                   base_node, parent, body, raw, error>>
    /\ UNCHANGED cli

\* lines 184-196
Download ==
    /\ pc = "loop"
    /\ LET rev == revisions[idx]
           diff == diffs[rev.diffPHID]
       IN  /\ body' = prepare_body(rev, parent)
           /\ parent' = rev.id
           /\ raw' = RawDiffOf(diff.id)
           /\ calls' = Append(calls, Ev("getrawdiff", diff.id, "", TRUE))
    /\ pc' = "apply"
    /\ UNCHANGED <<args, config, revisions, parents, children, diffs,
                   base_node, idx, tree, error>>
    /\ UNCHANGED cli

\* lines 198-205: what is done with the raw diff
ApplyMode(a) ==
    IF a.no_commit THEN "no_commit"
    ELSE IF a.raw THEN "raw"
    ELSE "commit"

\* PatchFailed, were the message to name the revision as line 145 does.
PatchFailedNamesRevision(rev) == Err("Patch failed to apply", rev.id, "")

\* line 216
PatchFailed(rev) == Err("Patch failed to apply", NoId, "")

\* lines 218-219
Progress(a, rev, revs) ==
    IF ~a.raw /\ rev.id # revs[Len(revs)].id
    THEN <<Ev("info: applied", rev.id, "", TRUE)>>
    ELSE <<>>

\* OnPatchFailure, were the failure passed over and the loop continued.
OnPatchFailureContinue(rev) ==
    /\ idx' = idx + 1
    /\ pc' = IF idx = Len(revisions) THEN "finish" ELSE "loop"
    /\ UNCHANGED <<tree, error>>

\* OnPatchFailure, were the commits made so far taken back.
OnPatchFailureRollback(rev) ==
    /\ Raise(PatchFailed(rev))
    /\ tree' = [tree EXCEPT !.commits = <<>>]
    /\ UNCHANGED idx

\* lines 215-216: the failure ends the run, the tree stays as it is
OnPatchFailure(rev) ==
    /\ Raise(PatchFailed(rev))
    /\ UNCHANGED <<tree, idx>>

\* line 184: the loop goes on with the next revision
Advance ==
    /\ idx' = idx + 1
    /\ pc' = IF idx = Len(revisions) THEN "finish" ELSE "loop"
    /\ UNCHANGED error

\* lines 198-219
Apply ==
    /\ pc = "apply"
    /\ LET rev == revisions[idx]
           diff == diffs[rev.diffPHID]
           mode == ApplyMode(args)
       IN  CASE mode = "no_commit" ->
                 /\ tree' = [tree EXCEPT !.applied = Append(@, raw)]
                 /\ calls' = Append(calls, Ev("apply_patch", raw, "", TRUE))
                             \o Progress(args, rev, revisions)
                 /\ Advance
             [] mode = "raw" ->
                 /\ calls' = Append(calls, Ev("info: raw", raw, "", TRUE))
                             \o Progress(args, rev, revisions)
                 /\ UNCHANGED tree
                 /\ Advance
             [] mode = "commit" ->
                 \E ok \in BOOLEAN :
                    IF ok
                    THEN /\ tree' = [tree EXCEPT !.commits = Append(@,
                                [raw |-> raw, body |-> body,
                                 author |-> diff.commits[1].author,
                                 date |-> diff.dateCreated])]
                         /\ calls' = Append(calls,
                                Ev("repo.apply_patch", raw, "", TRUE))
                                \o Progress(args, rev, revisions)
                         /\ Advance
                    ELSE /\ calls' = Append(calls,
                                Ev("repo.apply_patch", raw, "", FALSE))
                         /\ OnPatchFailure(rev)
    /\ UNCHANGED <<args, config, revisions, parents, children, diffs,
                   base_node, parent, body, raw>>
    /\ UNCHANGED cli

\* lines 221-222
Finish ==
    /\ pc = "finish"
    /\ calls' = IF ~args.raw
                THEN Append(calls, Ev("warning: applied",
                                      TargetRevisionId(revisions), "", TRUE))
                ELSE calls
    /\ pc' = "done"
    /\ UNCHANGED <<args, config, locals, tree, error>>
    /\ UNCHANGED cli

\* ------------------------------------------ check_revision_id (225-239)
\* A string is a sequence of characters.  An ASCII character is written as
\* itself, any other character by its code point, as "U+0663".
\* \d of Python's re on a str pattern: the decimal digits of Unicode
\* (category Nd), in code point order; each row runs from zero to nine.
Digits ==
    <<"0", "1", "2", "3", "4", "5", "6", "7", "8", "9",
       "U+0660", "U+0661", "U+0662", "U+0663", "U+0664", "U+0665", "U+0666", "U+0667", "U+0668", "U+0669",
       "U+06F0", "U+06F1", "U+06F2", "U+06F3", "U+06F4", "U+06F5", "U+06F6", "U+06F7", "U+06F8", "U+06F9",
       "U+07C0", "U+07C1", "U+07C2", "U+07C3", "U+07C4", "U+07C5", "U+07C6", "U+07C7", "U+07C8", "U+07C9",
       "U+0966", "U+0967", "U+0968", "U+0969", "U+096A", "U+096B", "U+096C", "U+096D", "U+096E", "U+096F",
       "U+09E6", "U+09E7", "U+09E8", "U+09E9", "U+09EA", "U+09EB", "U+09EC", "U+09ED", "U+09EE", "U+09EF",
       "U+0A66", "U+0A67", "U+0A68", "U+0A69", "U+0A6A", "U+0A6B", "U+0A6C", "U+0A6D", "U+0A6E", "U+0A6F",
       "U+0AE6", "U+0AE7", "U+0AE8", "U+0AE9", "U+0AEA", "U+0AEB", "U+0AEC", "U+0AED", "U+0AEE", "U+0AEF",
       "U+0B66", "U+0B67", "U+0B68", "U+0B69", "U+0B6A", "U+0B6B", "U+0B6C", "U+0B6D", "U+0B6E", "U+0B6F",
       "U+0BE6", "U+0BE7", "U+0BE8", "U+0BE9", "U+0BEA", "U+0BEB", "U+0BEC", "U+0BED", "U+0BEE", "U+0BEF",
       "U+0C66", "U+0C67", "U+0C68", "U+0C69", "U+0C6A", "U+0C6B", "U+0C6C", "U+0C6D", "U+0C6E", "U+0C6F",
       "U+0CE6", "U+0CE7", "U+0CE8", "U+0CE9", "U+0CEA", "U+0CEB", "U+0CEC", "U+0CED", "U+0CEE", "U+0CEF",
       "U+0D66", "U+0D67", "U+0D68", "U+0D69", "U+0D6A", "U+0D6B", "U+0D6C", "U+0D6D", "U+0D6E", "U+0D6F",
       "U+0DE6", "U+0DE7", "U+0DE8", "U+0DE9", "U+0DEA", "U+0DEB", "U+0DEC", "U+0DED", "U+0DEE", "U+0DEF",
       "U+0E50", "U+0E51", "U+0E52", "U+0E53", "U+0E54", "U+0E55", "U+0E56", "U+0E57", "U+0E58", "U+0E59",
       "U+0ED0", "U+0ED1", "U+0ED2", "U+0ED3", "U+0ED4", "U+0ED5", "U+0ED6", "U+0ED7", "U+0ED8", "U+0ED9",
       "U+0F20", "U+0F21", "U+0F22", "U+0F23", "U+0F24", "U+0F25", "U+0F26", "U+0F27", "U+0F28", "U+0F29",
       "U+1040", "U+1041", "U+1042", "U+1043", "U+1044", "U+1045", "U+1046", "U+1047", "U+1048", "U+1049",
       "U+1090", "U+1091", "U+1092", "U+1093", "U+1094", "U+1095", "U+1096", "U+1097", "U+1098", "U+1099",
       "U+17E0", "U+17E1", "U+17E2", "U+17E3", "U+17E4", "U+17E5", "U+17E6", "U+17E7", "U+17E8", "U+17E9",
       "U+1810", "U+1811", "U+1812", "U+1813", "U+1814", "U+1815", "U+1816", "U+1817", "U+1818", "U+1819",
       "U+1946", "U+1947", "U+1948", "U+1949", "U+194A", "U+194B", "U+194C", "U+194D", "U+194E", "U+194F",
       "U+19D0", "U+19D1", "U+19D2", "U+19D3", "U+19D4", "U+19D5", "U+19D6", "U+19D7", "U+19D8", "U+19D9",
       "U+1A80", "U+1A81", "U+1A82", "U+1A83", "U+1A84", "U+1A85", "U+1A86", "U+1A87", "U+1A88", "U+1A89",
       "U+1A90", "U+1A91", "U+1A92", "U+1A93", "U+1A94", "U+1A95", "U+1A96", "U+1A97", "U+1A98", "U+1A99",
       "U+1B50", "U+1B51", "U+1B52", "U+1B53", "U+1B54", "U+1B55", "U+1B56", "U+1B57", "U+1B58", "U+1B59",
       "U+1BB0", "U+1BB1", "U+1BB2", "U+1BB3", "U+1BB4", "U+1BB5", "U+1BB6", "U+1BB7", "U+1BB8", "U+1BB9",
       "U+1C40", "U+1C41", "U+1C42", "U+1C43", "U+1C44", "U+1C45", "U+1C46", "U+1C47", "U+1C48", "U+1C49",
       "U+1C50", "U+1C51", "U+1C52", "U+1C53", "U+1C54", "U+1C55", "U+1C56", "U+1C57", "U+1C58", "U+1C59",
       "U+A620", "U+A621", "U+A622", "U+A623", "U+A624", "U+A625", "U+A626", "U+A627", "U+A628", "U+A629",
       "U+A8D0", "U+A8D1", "U+A8D2", "U+A8D3", "U+A8D4", "U+A8D5", "U+A8D6", "U+A8D7", "U+A8D8", "U+A8D9",
       "U+A900", "U+A901", "U+A902", "U+A903", "U+A904", "U+A905", "U+A906", "U+A907", "U+A908", "U+A909",
       "U+A9D0", "U+A9D1", "U+A9D2", "U+A9D3", "U+A9D4", "U+A9D5", "U+A9D6", "U+A9D7", "U+A9D8", "U+A9D9",
       "U+A9F0", "U+A9F1", "U+A9F2", "U+A9F3", "U+A9F4", "U+A9F5", "U+A9F6", "U+A9F7", "U+A9F8", "U+A9F9",
       "U+AA50", "U+AA51", "U+AA52", "U+AA53", "U+AA54", "U+AA55", "U+AA56", "U+AA57", "U+AA58", "U+AA59",
       "U+ABF0", "U+ABF1", "U+ABF2", "U+ABF3", "U+ABF4", "U+ABF5", "U+ABF6", "U+ABF7", "U+ABF8", "U+ABF9",
       "U+FF10", "U+FF11", "U+FF12", "U+FF13", "U+FF14", "U+FF15", "U+FF16", "U+FF17", "U+FF18", "U+FF19",
       "U+104A0", "U+104A1", "U+104A2", "U+104A3", "U+104A4", "U+104A5", "U+104A6", "U+104A7", "U+104A8", "U+104A9",
       "U+10D30", "U+10D31", "U+10D32", "U+10D33", "U+10D34", "U+10D35", "U+10D36", "U+10D37", "U+10D38", "U+10D39",
       "U+11066", "U+11067", "U+11068", "U+11069", "U+1106A", "U+1106B", "U+1106C", "U+1106D", "U+1106E", "U+1106F",
       "U+110F0", "U+110F1", "U+110F2", "U+110F3", "U+110F4", "U+110F5", "U+110F6", "U+110F7", "U+110F8", "U+110F9",
       "U+11136", "U+11137", "U+11138", "U+11139", "U+1113A", "U+1113B", "U+1113C", "U+1113D", "U+1113E", "U+1113F",
       "U+111D0", "U+111D1", "U+111D2", "U+111D3", "U+111D4", "U+111D5", "U+111D6", "U+111D7", "U+111D8", "U+111D9",
       "U+112F0", "U+112F1", "U+112F2", "U+112F3", "U+112F4", "U+112F5", "U+112F6", "U+112F7", "U+112F8", "U+112F9",
       "U+11450", "U+11451", "U+11452", "U+11453", "U+11454", "U+11455", "U+11456", "U+11457", "U+11458", "U+11459",
       "U+114D0", "U+114D1", "U+114D2", "U+114D3", "U+114D4", "U+114D5", "U+114D6", "U+114D7", "U+114D8", "U+114D9",
       "U+11650", "U+11651", "U+11652", "U+11653", "U+11654", "U+11655", "U+11656", "U+11657", "U+11658", "U+11659",
       "U+116C0", "U+116C1", "U+116C2", "U+116C3", "U+116C4", "U+116C5", "U+116C6", "U+116C7", "U+116C8", "U+116C9",
       "U+11730", "U+11731", "U+11732", "U+11733", "U+11734", "U+11735", "U+11736", "U+11737", "U+11738", "U+11739",
       "U+118E0", "U+118E1", "U+118E2", "U+118E3", "U+118E4", "U+118E5", "U+118E6", "U+118E7", "U+118E8", "U+118E9",
       "U+11950", "U+11951", "U+11952", "U+11953", "U+11954", "U+11955", "U+11956", "U+11957", "U+11958", "U+11959",
       "U+11C50", "U+11C51", "U+11C52", "U+11C53", "U+11C54", "U+11C55", "U+11C56", "U+11C57", "U+11C58", "U+11C59",
       "U+11D50", "U+11D51", "U+11D52", "U+11D53", "U+11D54", "U+11D55", "U+11D56", "U+11D57", "U+11D58", "U+11D59",
       "U+11DA0", "U+11DA1", "U+11DA2", "U+11DA3", "U+11DA4", "U+11DA5", "U+11DA6", "U+11DA7", "U+11DA8", "U+11DA9",
       "U+16A60", "U+16A61", "U+16A62", "U+16A63", "U+16A64", "U+16A65", "U+16A66", "U+16A67", "U+16A68", "U+16A69",
       "U+16AC0", "U+16AC1", "U+16AC2", "U+16AC3", "U+16AC4", "U+16AC5", "U+16AC6", "U+16AC7", "U+16AC8", "U+16AC9",
       "U+16B50", "U+16B51", "U+16B52", "U+16B53", "U+16B54", "U+16B55", "U+16B56", "U+16B57", "U+16B58", "U+16B59",
       "U+1D7CE", "U+1D7CF", "U+1D7D0", "U+1D7D1", "U+1D7D2", "U+1D7D3", "U+1D7D4", "U+1D7D5", "U+1D7D6", "U+1D7D7",
       "U+1D7D8", "U+1D7D9", "U+1D7DA", "U+1D7DB", "U+1D7DC", "U+1D7DD", "U+1D7DE", "U+1D7DF", "U+1D7E0", "U+1D7E1",
       "U+1D7E2", "U+1D7E3", "U+1D7E4", "U+1D7E5", "U+1D7E6", "U+1D7E7", "U+1D7E8", "U+1D7E9", "U+1D7EA", "U+1D7EB",
       "U+1D7EC", "U+1D7ED", "U+1D7EE", "U+1D7EF", "U+1D7F0", "U+1D7F1", "U+1D7F2", "U+1D7F3", "U+1D7F4", "U+1D7F5",
       "U+1D7F6", "U+1D7F7", "U+1D7F8", "U+1D7F9", "U+1D7FA", "U+1D7FB", "U+1D7FC", "U+1D7FD", "U+1D7FE", "U+1D7FF",
       "U+1E140", "U+1E141", "U+1E142", "U+1E143", "U+1E144", "U+1E145", "U+1E146", "U+1E147", "U+1E148", "U+1E149",
       "U+1E2F0", "U+1E2F1", "U+1E2F2", "U+1E2F3", "U+1E2F4", "U+1E2F5", "U+1E2F6", "U+1E2F7", "U+1E2F8", "U+1E2F9",
       "U+1E950", "U+1E951", "U+1E952", "U+1E953", "U+1E954", "U+1E955", "U+1E956", "U+1E957", "U+1E958", "U+1E959",
       "U+1FBF0", "U+1FBF1", "U+1FBF2", "U+1FBF3", "U+1FBF4", "U+1FBF5", "U+1FBF6", "U+1FBF7", "U+1FBF8", "U+1FBF9" >>
IsDigit(c) == \E k \in 1..Len(Digits) : Digits[k] = c
\* the value int() gives a digit
DigitVal(c) == ((CHOOSE k \in 1..Len(Digits) : Digits[k] = c) - 1) % 10

StartsWith(s, p) == Len(s) >= Len(p) /\ SubSeq(s, 1, Len(p)) = p
Drop(s, n) == SubSeq(s, n + 1, Len(s))

\* \d+ : the length of the longest prefix of s made of digits
DigitRun(s) ==
    CHOOSE n \in 0..Len(s) :
        /\ \A k \in 1..n : IsDigit(s[k])
        /\ n = Len(s) \/ ~IsDigit(s[n + 1])

\* [^/]+ : the length of the longest prefix of s without "/"
HostRun(s) ==
    CHOOSE n \in 0..Len(s) :
        /\ \A k \in 1..n : s[k] # "/"
        /\ n = Len(s) \/ s[n + 1] = "/"

\* int(): the value of a string of digits
RECURSIVE DecimalValue(_)
DecimalValue(ds) ==
    IF ds = <<>> THEN 0
    ELSE DecimalValue(SubSeq(ds, 1, Len(ds) - 1)) * 10 + DigitVal(ds[Len(ds)])

\* sys.get_int_max_str_digits(): the longest string of digits int() converts
IntMaxStrDigits == 4300
\* the ValueError of int() for a longer one
ValueError == [ok |-> FALSE, id |-> NoId, raised |-> "ValueError"]

\* lines 229, 234: int(match.group(1))
ToInt(ds) ==
    IF Len(ds) > IntMaxStrDigits THEN ValueError
    ELSE Returned(DecimalValue(ds))

\* Python's `$`: the end of the string, or just before a newline that ends it
AtEnd(rest) == rest = <<>> \/ rest = <<"\n">>

\* line 227: re.search(r"^D?(\d+)$", value); group 1, <<>> without a match
MatchNumber(s) ==
    LET a == IF StartsWith(s, <<"D">>) THEN Drop(s, 1) ELSE s
        n == DigitRun(a)
    IN  IF n >= 1 /\ AtEnd(Drop(a, n)) THEN SubSeq(a, 1, n) ELSE <<>>

\* MatchUrl, were the pattern of line 232 closed by `$` as that of line 227.
MatchUrlAnchored(s) ==
    LET a == IF StartsWith(s, <<"h", "t", "t", "p">>) THEN Drop(s, 4) ELSE <<>>
        b == IF StartsWith(a, <<"s">>) THEN Drop(a, 1) ELSE a
        c == IF StartsWith(b, <<":", "/", "/">>) THEN Drop(b, 3) ELSE <<>>
        h == HostRun(c)
        d == Drop(c, h)
        e == IF h >= 1 /\ StartsWith(d, <<"/", "D">>) THEN Drop(d, 2) ELSE <<>>
        n == DigitRun(e)
    IN  IF n >= 1 /\ AtEnd(Drop(e, n)) THEN SubSeq(e, 1, n) ELSE <<>>

\* line 232: re.search(r"^https?://[^/]+/D(\d+)", value); group 1, <<>>
\* without a match
MatchUrl(s) ==
    LET a == IF StartsWith(s, <<"h", "t", "t", "p">>) THEN Drop(s, 4) ELSE <<>>
        b == IF StartsWith(a, <<"s">>) THEN Drop(a, 1) ELSE a
        c == IF StartsWith(b, <<":", "/", "/">>) THEN Drop(b, 3) ELSE <<>>
        h == HostRun(c)
        d == Drop(c, h)
        e == IF h >= 1 /\ StartsWith(d, <<"/", "D">>) THEN Drop(d, 2) ELSE <<>>
        n == DigitRun(e)
    IN  SubSeq(e, 1, n)

\* argparse.ArgumentTypeError, lines 237-239
ArgumentTypeError ==
    [ok |-> FALSE, id |-> NoId, raised |-> "ArgumentTypeError"]

\* lines 225-239
check_revision_id(s) ==
    IF MatchNumber(s) # <<>>
    THEN ToInt(MatchNumber(s))
    ELSE IF MatchUrl(s) # <<>>
    THEN ToInt(MatchUrl(s))
    ELSE ArgumentTypeError

\* The revision arguments tried: a head, a number, a tail.
NumberHeads == {<<>>, <<"D">>}
UrlHeads ==
    { <<"h", "t", "t", "p", ":", "/", "/", "p", ".", "x", "/", "D">>,
      <<"h", "t", "t", "p", "s", ":", "/", "/", "p", ".", "x", "/", "D">> }
OtherHeads ==
    { <<"d">>, <<"D", "D">>, <<" ">>,
      <<"h", "t", "t", "p", "s", ":", "/", "/", "/", "D">>,
      <<"h", "t", "t", "p", "s", ":", "/", "/", "p", "/", "r", "/", "D">>,
      <<"h", "t", "t", "p", "s", ":", "/", "p", "/", "D">>,
      <<"h", "t", "t", "p", "s", "s", ":", "/", "/", "p", "/", "D">>,
      <<"x", "h", "t", "t", "p", ":", "/", "/", "p", "/", "D">>,
      <<"h", "t", "t", "p", ":", "/", "/", "p", "/", "d">> }
Tails == {<<>>, <<"\n">>, <<"x">>, <<"/">>, <<"#", "4">>, <<"\n", "\n">>}
InputDigits == {"0", "1", "7", "U+0663"}
RECURSIVE DigitStrings(_)
DigitStrings(n) ==
    IF n = 0 THEN {<<>>}
    ELSE LET shorter == DigitStrings(n - 1)
         IN  shorter \cup {Append(ds, c) : ds \in shorter, c \in InputDigits}
\* a number one digit longer than int() converts
LongNumber == [i \in 1..(IntMaxStrDigits + 1) |-> "1"]
LongHeads == {<<>>, <<"h", "t", "t", "p", ":", "/", "/", "p", ".", "x", "/", "D">>,
              <<"d">>}
LongTails == {<<>>, <<"x">>}
RevisionArguments ==
    {h \o ds \o t : h \in NumberHeads \cup UrlHeads \cup OtherHeads,
                    ds \in DigitStrings(MaxDigits), t \in Tails}
    \cup {h \o LongNumber \o t : h \in LongHeads, t \in LongTails}

\* argparse has not run yet
InitId ==
    /\ pc = "argparse"
    /\ value \in RevisionArguments
    /\ parsed = ArgumentTypeError
    /\ args = [raw |-> FALSE, no_commit |-> FALSE, yes |-> FALSE,
               no_parents |-> FALSE, no_children |-> FALSE,
               revision_id |-> NoId, apply_to |-> None]
    /\ config = [always_full_stack |-> FALSE]
    /\ revisions = <<>>
    /\ parents = <<>>
    /\ children = <<>>
    /\ diffs = <<>>
    /\ base_node = None
    /\ idx = 0
    /\ parent = NoId
    /\ body = NoBody
    /\ raw = NoId
    /\ tree = InitialTree
    /\ calls = <<>>
    /\ error = NoError

\* lines 244-248: argparse applies type=check_revision_id to the argument and
\* ends with a usage error when that raises ArgumentTypeError or ValueError
ParseRevisionId ==
    /\ pc = "argparse"
    /\ parsed' = check_revision_id(value)
    /\ IF parsed'.ok
       THEN /\ pc' = "parsed"
            /\ args' = [args EXCEPT !.revision_id = parsed'.id]
       ELSE /\ pc' = "usage"
            /\ UNCHANGED args
    /\ UNCHANGED <<config, locals, tree, calls, error, value>>

NextId == ParseRevisionId

SpecId == InitId /\ [][NextId]_vars

\* ------------------------------------------------------------- claims
Events(op) == {i \in 1..Len(calls) : calls[i].op = op}
Called(op) == Events(op) # {}
CallsOf(ops) == SelectSeq(calls, LAMBDA e : e.op \in ops)
\* the calls that change the working tree, and the pre-flight checks
Mutations == {"before_patch", "apply_patch", "repo.apply_patch"}
GuardChecks == {"check_vcs", "is_worktree_clean"}
\* the stack is complete once lines 119-126 ran
StackBuilt == pc = "diffs" \/ Called("get_diffs")
\* the raw diff text of a revision of the service
RawOfRevision(id) == RawDiffOf(DiffIdOf(id))
\* the run has just seen repo.apply_patch fail
PatchFailureHappened ==
    /\ calls # <<>>
    /\ calls[Len(calls)].op = "repo.apply_patch"
    /\ ~calls[Len(calls)].ok
\* the identifier of the first reference of type "base", None without one
FirstBaseIdentifier(refs) ==
    LET I == {i \in 1..Len(refs) : refs[i].type = "base"}
    IN  IF I = {} THEN None
        ELSE Some(refs[CHOOSE i \in I : \A j \in I : i <= j].identifier)

\* C1: in raw mode, whatever the other flags, a run calls nothing that
\* changes the working tree (before_patch, apply_patch, repo.apply_patch)
\* and none of the Guard's checks (check_vcs, is_worktree_clean).
C1_RawModeTouchesNothing ==
    args.raw =>
        /\ \A i \in 1..Len(calls) : calls[i].op \notin Mutations \cup GuardChecks
        /\ tree = InitialTree

\* C2: every call that changes the working tree comes after a call of
\* is_worktree_clean of the same run that returned true.
C2_MutationOnlyAfterCleanCheck ==
    \A i \in 1..Len(calls) :
        calls[i].op \in Mutations =>
            \E j \in 1..(i - 1) :
                calls[j].op = "is_worktree_clean" /\ calls[j].ok

\* C3: in commit mode, when repo.apply_patch fails on the k-th revision of
\* the stack, the history holds exactly the commits of the first k-1
\* revisions in stack order, the raw diffs of the revisions 1..k and no
\* other were downloaded, repo.apply_patch was called for 1..k and no other,
\* and the run has ended.
C3_PrefixCommitted ==
    (~args.raw /\ ~args.no_commit /\ PatchFailureHappened) =>
        LET k == idx
            dl == CallsOf({"getrawdiff"})
            ap == CallsOf({"repo.apply_patch", "apply_patch"})
        IN  /\ pc = "error"
            /\ k \in 1..Len(revisions)
            /\ Len(tree.commits) = k - 1
            /\ \A i \in 1..(k - 1) :
                /\ tree.commits[i].body.id = revisions[i].id
                /\ tree.commits[i].raw = RawOfRevision(revisions[i].id)
            /\ tree.applied = <<>>
            /\ Len(dl) = k
            /\ \A i \in 1..k : dl[i].id = DiffIdOf(revisions[i].id)
            /\ Len(ap) = k
            /\ \A i \in 1..k :
                /\ ap[i].op = "repo.apply_patch"
                /\ ap[i].id = RawOfRevision(revisions[i].id)
                /\ ap[i].ok = (i < k)

\* the second of three revisions failed, the first is committed
C3_Witness ==
    /\ ~args.raw /\ ~args.no_commit /\ PatchFailureHappened
    /\ Len(revisions) = 3
    /\ idx = 2
    /\ Len(tree.commits) = 1

\* C4 as stated: the error reported for a failed patch references the id of
\* the revision whose patch failed.
C4_ErrorNamesRevision ==
    PatchFailureHappened =>
        pc = "error" /\ error.id = revisions[idx].id

\* C4 as amended: the error reported for a failed patch is the fixed message
\* "Patch failed to apply" and names no revision; the revision that failed
\* is the one whose raw diff was downloaded last.
C4_ErrorIsFixedMessage ==
    PatchFailureHappened =>
        /\ pc = "error"
        /\ error = Err("Patch failed to apply", NoId, "")
        /\ calls[Len(calls)].id = RawOfRevision(revisions[idx].id)
        /\ calls[Len(calls) - 1] = Ev("getrawdiff", DiffIdOf(revisions[idx].id),
                                      "", TRUE)

C4_Witness ==
    /\ PatchFailureHappened
    /\ pc = "error"
    /\ Len(revisions) = 3
    /\ idx = 2

\* C5: with P ancestors and C successors the stack has P+C+1 revisions: the
\* ancestors oldest first, the root at index P+1 (offset P), the successors
\* nearest first; each revision but the first depends directly on the one
\* before it.
C5_StackOrder ==
    StackBuilt =>
        LET P == Len(parents)
            C == Len(children)
        IN  /\ Len(revisions) = P + C + 1
            /\ revisions[P + 1].id = args.revision_id
            /\ \A i \in 1..P : revisions[i].phid = parents[P + 1 - i]
            /\ \A j \in 1..C : revisions[P + 1 + j].phid = children[j]
            /\ \A i \in 2..(P + C + 1) :
                /\ PosOf(revisions[i].id) > 1
                /\ revisions[i - 1].id = IdAt(PosOf(revisions[i].id) - 1)

C5_Witness ==
    /\ StackBuilt
    /\ Len(parents) = 2
    /\ Len(children) >= 1
    /\ Len(revisions) = Len(parents) + Len(children) + 1

\* C6: when the ancestor walk reports a branching dependency the run has
\* ended in the non-linear error, and neither get_diffs nor a raw diff
\* download nor a change of the working tree is part of the run.
C6_BranchingAncestorsFatal ==
    (\E i \in Events("get_ancestor_phids") : ~calls[i].ok) =>
        /\ ~args.no_parents
        /\ pc = "error"
        /\ error = Err("non-linear dependency relationships",
                       args.revision_id, "Unable to patch the stack")
        /\ ~Called("get_diffs")
        /\ ~Called("getrawdiff")
        /\ \A i \in 1..Len(calls) : calls[i].op \notin Mutations
        /\ tree = InitialTree

C6_Witness ==
    /\ \E i \in Events("get_ancestor_phids") : ~calls[i].ok
    /\ pc = "error"

\* C7: when the successor walk reports a branching dependency the run warns
\* and goes on (an error that ends it is another one, raised after the diffs
\* were pulled), never prompts, and its stack is the resolved ancestors
\* followed by the root.
C7_BranchingChildrenDropped ==
    (\E i \in Events("get_successor_phids") : ~calls[i].ok) =>
        LET P == Len(parents)
        IN  /\ \A i \in Events("get_successor_phids") :
                /\ i < Len(calls)
                /\ calls[i + 1].op = "warning: non-linear"
                /\ calls[i + 1].id = args.revision_id
            /\ pc = "error" =>
                /\ error.msg # "non-linear dependency relationships"
                /\ Called("get_diffs")
            /\ ~Called("prompt")
            /\ children = <<>>
            /\ StackBuilt =>
                /\ Len(revisions) = P + 1
                /\ revisions[P + 1].id = args.revision_id
                /\ \A i \in 1..P : revisions[i].phid = parents[P + 1 - i]

C7_Witness ==
    /\ \E i \in Events("get_successor_phids") : ~calls[i].ok
    /\ parents # <<>>
    /\ pc = "done"
    /\ Len(revisions) = Len(parents) + 1

\* C8 as stated: the prompt about the children is shown only in runs that
\* found parents.
C8_PromptOnlyWithParents ==
    Called("prompt") => parents # <<>>

\* C8 as amended: the prompt about the children is shown exactly when
\* children were found and neither the yes flag nor the always preference
\* is set, whether or not parents were found; a run that found no children
\* never prompts.
C8_PromptExactlyWithChildren ==
    [][LET asked == /\ Len(calls') > Len(calls)
                    /\ calls'[Len(calls) + 1].op = "prompt"
       IN  asked <=> /\ pc = "confirm"
                     /\ children # <<>>
                     /\ ~args.yes
                     /\ ~config.always_full_stack]_vars

C8_Witness ==
    /\ Called("prompt")
    /\ parents = <<>>
    /\ ~args.no_parents

\* C9 as stated: in "base" mode the node handed to before_patch is the
\* identifier of the "base" reference of the first revision's diff.
C9_BaseRefHandedUnchanged ==
    \A i \in Events("before_patch") :
        args.apply_to = Some("base") =>
            calls[i].base = FirstBaseIdentifier(BaseDiff(revisions, diffs).refs)

\* C9 as amended: in "base" mode the identifier selected is that of the first
\* "base" reference of the first revision's diff.  When it is not empty it is
\* handed unchanged to repo.check_node, and the node handed to before_patch
\* is the node repo.check_node returned for it.  When it is empty, or there
\* is no "base" reference, the run ends with "Base commit not found in diff"
\* without check_node and before_patch, whatever "base" references follow.
C9_BaseRefResolved ==
    /\ (args.apply_to = Some("base") /\ diffs # <<>>) =>
        LET ident == FirstBaseIdentifier(BaseDiff(revisions, diffs).refs)
        IN  /\ \A i \in Events("check_node") :
                /\ ~Falsy(ident)
                /\ calls[i] = EvBase("check_node", NoId, ident,
                                     check_node(ident[1]) # NotFound)
            /\ \A i \in Events("before_patch") :
                /\ i > 1
                /\ calls[i - 1] = EvBase("check_node", NoId, ident, TRUE)
                /\ calls[i].base = Some(check_node(ident[1]))
                /\ tree.base = Some(check_node(ident[1]))
            /\ pc = "check_node" => ~Falsy(ident) /\ base_node = ident
            /\ pc \in {"before_patch", "loop", "apply", "finish", "done"} =>
                    Called("check_node")
            /\ (Falsy(ident) /\ pc \in {"check_node", "before_patch", "loop",
                                         "apply", "finish", "done", "error"}) =>
                    /\ pc = "error"
                    /\ error.msg \in {"Base commit not found in diff",
                                      "A diff without commit information detected"}
    /\ (pc = "error" /\ error.msg = "Base commit not found in diff") =>
            /\ args.apply_to = Some("base")
            /\ Falsy(FirstBaseIdentifier(BaseDiff(revisions, diffs).refs))
            /\ ~Called("check_node")
            /\ ~Called("before_patch")

C9_Witness ==
    /\ Called("before_patch")
    /\ args.apply_to = Some("base")
    /\ FirstBaseIdentifier(BaseDiff(revisions, diffs).refs) = Some("h1")
    /\ tree.base = Some("n2")

\* C10: when "base" mode finds no "base" reference, or the chosen identifier
\* is unknown to the local repository, the run has ended in an error without
\* before_patch, without a raw diff download and without an applied patch;
\* so a run that reaches before_patch outside "here" mode chose an
\* identifier that resolves.
C10_BaseFailureIsFatalEarly ==
    /\ ( \/ (pc = "error" /\ error.msg = "Base commit not found in diff")
         \/ \E i \in Events("check_node") : ~calls[i].ok )
       => /\ pc = "error"
          /\ ~Called("before_patch")
          /\ ~Called("getrawdiff")
          /\ \A i \in 1..Len(calls) : calls[i].op \notin Mutations
          /\ tree = InitialTree
    /\ (Called("before_patch") /\ args.apply_to # Some("here"))
       => LET ident == IF args.apply_to = Some("base")
                       THEN FirstBaseIdentifier(BaseDiff(revisions, diffs).refs)
                       ELSE args.apply_to
          IN  /\ ~Falsy(ident)
              /\ check_node(ident[1]) # NotFound

C10_Witness ==
    /\ pc = "error"
    /\ \/ error.msg = "Base commit not found in diff"
       \/ (\E i \in Events("check_node") : ~calls[i].ok)
    /\ Len(revisions) >= 2

\* the value written by a string of digits, digit by digit
RECURSIVE Pow10(_)
Pow10(n) == IF n = 0 THEN 1 ELSE 10 * Pow10(n - 1)
RECURSIVE Written(_, _)
Written(ds, k) ==
    IF k > Len(ds) THEN 0
    ELSE DigitVal(ds[k]) * Pow10(Len(ds) - k) + Written(ds, k + 1)
NumberStrings == DigitStrings(MaxDigits + 1) \ {<<>>}
Parsed == pc \in {"parsed", "usage"}

\* C11 as stated: check_revision_id returns n exactly for "n", "Dn" and a
\* URL ending in "Dn", and rejects every other string, a number or a URL
\* followed by more characters included.
C11_OnlyExactSpellings ==
    Parsed =>
        IF \E h \in NumberHeads \cup UrlHeads, ds \in NumberStrings :
                value = h \o ds
        THEN \E h \in NumberHeads \cup UrlHeads, ds \in NumberStrings :
                value = h \o ds /\ parsed = Returned(Written(ds, 1))
        ELSE parsed = ArgumentTypeError

\* C11 as amended: check_revision_id returns n for "n" and "Dn", each
\* possibly ended by one newline, and for every string that starts with
\* http:// or https://, a host, "/D" and the digits of n, whatever follows
\* the digits; the digits of n are decimal digits of any script, so "D" with
\* the Arabic-Indic three gives 3; it rejects every other string with an
\* argument error, and a number of more digits than int() converts, in one
\* of these spellings, with the ValueError of int(): a usage error as well.
C11_SpellingsAndUrlPrefix ==
    /\ (Parsed /\ value = <<"D", "U+0663">>) => parsed = Returned(3)
    /\ Parsed =>
        LET Accepted(h, t) ==
                \/ h \in NumberHeads /\ t \in {<<>>, <<"\n">>}
                \/ h \in UrlHeads
        IN  IF \E h \in NumberHeads \cup UrlHeads, ds \in NumberStrings,
                  t \in Tails : value = h \o ds \o t /\ Accepted(h, t)
            THEN \E h \in NumberHeads \cup UrlHeads, ds \in NumberStrings,
                    t \in Tails :
                    /\ value = h \o ds \o t
                    /\ Accepted(h, t)
                    /\ parsed = Returned(Written(ds, 1))
                    /\ args.revision_id = Written(ds, 1)
            ELSE /\ pc = "usage"
                 /\ args.revision_id = NoId
                 /\ IF \E h \in NumberHeads \cup UrlHeads, t \in Tails :
                            value = h \o LongNumber \o t /\ Accepted(h, t)
                    THEN parsed = ValueError
                    ELSE parsed = ArgumentTypeError

\* a URL with text after the number, one digit of it not ASCII, is accepted
C11_Witness ==
    /\ pc = "parsed"
    /\ \E h \in UrlHeads, ds \in NumberStrings :
          /\ value = h \o ds \o <<"#", "4">>
          /\ parsed.id = Written(ds, 1)
          /\ \E k \in 1..Len(ds) : ds[k] = "U+0663"

\* the raw diff texts of the first n revisions of the stack, in stack order
StackRaws(n) == [i \in 1..n |-> RawOfRevision(revisions[i].id)]
\* the id field of each call of a sequence of calls
IdsOf(evs) == [i \in 1..Len(evs) |-> evs[i].id]
\* the commit-metadata error of lines 143-146
NoCommitInfoRaised ==
    pc = "error" /\ error.msg = "A diff without commit information detected"
\* the revisions of the stack whose diff carries no commit metadata
Bare == {i \in 1..Len(revisions) :
            diffs[revisions[i].diffPHID].commits = <<>>}
\* the commit-metadata test of lines 139-146 is behind the run
CommitsChecked == diffs # <<>> /\ pc # "commits"
\* the last revision of the stack: the farthest child, else the root
LastIncludedId ==
    IF children # <<>> THEN children[Len(children)] - 100
    ELSE args.revision_id

\* C12: a raw run that ends successfully has logged exactly the raw diff
\* texts of the revisions of its stack, one each, in stack order.
C12_RawEmitsStack ==
    (args.raw /\ pc = "done") =>
        IdsOf(CallsOf({"info: raw"})) = StackRaws(Len(revisions))

\* C13: with --no-commit every before_patch call gets no branch name, no
\* branch exists, repo.apply_patch is never called and no commit is made;
\* the raw diffs handed to the uncommitted apply_patch are those of the
\* revisions handled so far, one each, in stack order, and those of the whole
\* stack when the run is done.
C13_NoCommitAppliesInPlace ==
    args.no_commit =>
        LET ap == CallsOf({"apply_patch"})
        IN  /\ \A i \in Events("before_patch") :
                calls[i].id = NoId /\ ~calls[i].ok
            /\ tree.branch = NoBranch
            /\ ~Called("repo.apply_patch")
            /\ tree.commits = <<>>
            /\ Len(ap) <= Len(revisions)
            /\ IdsOf(ap) = StackRaws(Len(ap))
            /\ tree.applied = IdsOf(ap)
            /\ pc = "done" => Len(ap) = Len(revisions)
            /\ (pc = "done" /\ ~args.raw) => Called("before_patch")

C13_Witness ==
    /\ args.no_commit /\ ~args.raw
    /\ pc = "done"
    /\ Len(revisions) = 3
    /\ Len(tree.applied) = 3

\* C14: in commit mode a stack with a diff without commit metadata ends in
\* the error that names the first such revision; with --raw or --no-commit
\* that error is never raised and such a stack is patched to the end.
C14_BareDiffFatalInCommitMode ==
    /\ (~args.raw /\ ~args.no_commit /\ CommitsChecked /\ Bare # {}) =>
            /\ NoCommitInfoRaised
            /\ \E i \in Bare :
                /\ error.id = revisions[i].id
                /\ \A j \in Bare : i <= j
    /\ (args.raw \/ args.no_commit) =>
            /\ ~NoCommitInfoRaised
            /\ (CommitsChecked /\ Bare # {} /\ pc = "error") =>
                    error.msg \in {"Base commit not found in diff",
                                   "Unknown revision",
                                   "Unknown revision; Use --apply-to"}

C14_Witness ==
    /\ ~args.raw /\ ~args.no_commit
    /\ NoCommitInfoRaised
    /\ Len(revisions) = 3
    /\ error.id = revisions[2].id

\* C15: in "here" mode of a run without --raw repo.check_node is never
\* called, base_node stays None and before_patch gets None as base node,
\* whatever references the diffs carry; such a run that reaches the loop has
\* called before_patch.
C15_HereModeResolvesNothing ==
    (args.apply_to = Some("here") /\ ~args.raw) =>
        /\ ~Called("check_node")
        /\ base_node = None
        /\ \A i \in Events("before_patch") : calls[i].base = None
        /\ tree.base = None
        /\ pc \in {"loop", "apply", "finish", "done"} => Called("before_patch")

C15_Witness ==
    /\ args.apply_to = Some("here") /\ ~args.raw
    /\ Called("before_patch")
    /\ get_base_ref(BaseDiff(revisions, diffs).refs) = Some("n1")
    /\ pc = "done"

\* C16: the body prepared for the i-th revision of the stack has depends_on
\* equal to the id of the (i-1)-th revision, None for the first; so has the
\* body of every commit made.
C16_DependsOnPredecessor ==
    LET Before(i) == IF i = 1 THEN NoId ELSE revisions[i - 1].id
    IN  /\ pc = "apply" =>
            body = [id |-> revisions[idx].id, depends_on |-> Before(idx)]
        /\ \A i \in 1..Len(tree.commits) :
            tree.commits[i].body =
                [id |-> revisions[i].id, depends_on |-> Before(i)]

C16_Witness ==
    /\ pc = "done"
    /\ Len(tree.commits) = 3
    /\ tree.commits[3].body.depends_on = revisions[2].id
    /\ parents # <<>> /\ children # <<>>

\* C17: the downloads and the applications of one run alternate: the k-th
\* download is that of the diff of the k-th revision, the k-th application
\* handles its raw diff, and a download follows only an application that
\* succeeded; a run that is done made one download per revision.
C17_OneRevisionAtATime ==
    LET w == CallsOf({"getrawdiff", "apply_patch", "repo.apply_patch",
                      "info: raw"})
    IN  /\ Len(w) <= 2 * Len(revisions)
        /\ \A j \in 1..Len(w) :
            IF j % 2 = 1
            THEN w[j] = Ev("getrawdiff", DiffIdOf(revisions[(j + 1) \div 2].id),
                           "", TRUE)
            ELSE /\ w[j].op # "getrawdiff"
                 /\ w[j].id = RawOfRevision(revisions[j \div 2].id)
                 /\ j < Len(w) => w[j].ok
        /\ pc = "done" => Len(w) = 2 * Len(revisions)

C17_Witness ==
    /\ pc = "done"
    /\ Len(revisions) = 3
    /\ Len(CallsOf({"getrawdiff"})) = 3
    /\ Len(tree.commits) = 3

\* C18: in commit mode the branch handed to before_patch is "phab-D" with
\* the id of the last revision of the stack (the farthest child included,
\* the root without children), and the closing message of a run without
\* --raw reports that id.
C18_BranchAndMessageNameLast ==
    /\ (~args.raw /\ ~args.no_commit) =>
            \A i \in Events("before_patch") :
                /\ calls[i].id = LastIncludedId
                /\ calls[i].ok
                /\ tree.branch = [prefix |-> "phab-D", id |-> LastIncludedId]
    /\ ~args.raw =>
            /\ \A i \in Events("warning: applied") :
                    calls[i].id = LastIncludedId /\ i = Len(calls)
            /\ pc = "done" => Called("warning: applied")

C18_Witness ==
    /\ ~args.raw /\ ~args.no_commit
    /\ pc = "done"
    /\ parents # <<>>
    /\ Len(children) = 2
    /\ tree.branch.id = children[2] - 100

\* C19: with the yes flag or the always preference set the step of lines
\* 104-116 does not prompt and keeps all children; after the answer "No" the
\* children are gone and no revision data is fetched for them; the
\* preference changes, and config.write is called, only in that step and
\* only with the answer "Always".
C19_ConfirmationPolicy ==
    [][LET new == SubSeq(calls', Len(calls) + 1, Len(calls'))
           Has(op) == \E i \in 1..Len(new) : new[i].op = op
           Answered(res) == \E i \in 1..Len(new) :
                                new[i].op = "prompt" /\ new[i].node = res
       IN  /\ (pc = "confirm" /\ (args.yes \/ config.always_full_stack)) =>
                ~Has("prompt") /\ children' = children
           /\ Answered("No") => children' = <<>>
           /\ (Answered("Yes") \/ Answered("Always")) => children' = children
           /\ (children = <<>> /\ pc # "children") =>
                /\ children' = <<>>
                /\ \A i \in 1..Len(new) : new[i].node # "children"
           /\ (config' # config \/ Has("config.write")) =>
                /\ pc = "confirm"
                /\ Answered("Always")
                /\ Has("config.write")
                /\ ~config.always_full_stack
                /\ config'.always_full_stack
           /\ Answered("Always") => Has("config.write") /\ config' # config
      ]_vars

C19_Witness ==
    /\ \E i \in Events("prompt") : calls[i].node = "No"
    /\ parents # <<>>
    /\ pc = "done"
    /\ Len(revisions) = Len(parents) + 1

\* C20: the commit-metadata error is raised before repo.check_node, before
\* before_patch, before any raw diff download and before any commit; so in
\* commit mode a run that got as far as one of these has commit metadata for
\* every revision of its stack.
C20_MetadataCheckedBeforeStaging ==
    /\ NoCommitInfoRaised =>
            /\ ~Called("check_node")
            /\ ~Called("before_patch")
            /\ ~Called("getrawdiff")
            /\ \A i \in 1..Len(calls) : calls[i].op \notin Mutations
            /\ base_node = None
            /\ tree = InitialTree
    /\ ( /\ ~args.raw /\ ~args.no_commit
         /\ \/ Called("check_node") \/ Called("before_patch")
            \/ Called("getrawdiff") \/ tree # InitialTree
            \/ base_node # None )
       => Bare = {}

C20_Witness ==
    /\ NoCommitInfoRaised
    /\ Len(revisions) = 3
    /\ error.id = revisions[3].id
    /\ args.apply_to = Some("base")

Next ==
    \/ ConduitCheck
    \/ Guard
    \/ FetchRoot
    \/ FetchParents
    \/ FetchChildren
    \/ Confirm
    \/ FetchRelated
    \/ PullDiffs
    \/ CheckCommits
    \/ SelectBase
    \/ CheckNode
    \/ BeforePatch
    \/ Download
    \/ Apply
    \/ Finish

Spec == Init /\ [][Next]_vars
====
